---------------------------- MODULE Spec2Model ----------------------------
(***************************************************************************)
(* A model of the IEXTools streaming decoder: IEXTools/IEXparser.py        *)
(* (class Parser) and IEXTools/messages.py (class MessageDecoder and the   *)
(* message dataclasses).                                                   *)
(*                                                                         *)
(* A capture file is a sequence of bytes (integers 0..255).  Every Parser  *)
(* method is one action; a method that ends by raising leaves the name of  *)
(* the exception in `exc`.  Byte strings are sequences of bytes, a Python  *)
(* int decoded from the wire is the integer it denotes.                    *)
(***************************************************************************)
EXTENDS Integers, Sequences, FiniteSets, TLC

(***************************************************************************)
(* Byte strings and struct codecs                                          *)
(***************************************************************************)
Byte == 0..255

Min(a, b) == IF a < b THEN a ELSE b

\* b"..." [p : q) of a byte string, Python slice semantics on 0-based offsets
Slice(s, p, q) == SubSeq(s, p + 1, Min(q, Len(s)))

RECURSIVE Concat(_)
Concat(ss) == IF ss = <<>> THEN <<>> ELSE Head(ss) \o Concat(Tail(ss))

Zeros(n) == [k \in 1..n |-> 0]

\* struct.pack("<h", n)
PackInt16(n) ==
    LET u == IF n < 0 THEN n + 65536 ELSE n
    IN  <<u % 256, u \div 256>>

\* struct.unpack("<h", b)[0] for a two-byte string b
UnpackInt16(b) ==
    LET u == b[1] + 256 * b[2]
    IN  IF u >= 32768 THEN u - 65536 ELSE u

\* struct.calcsize of one format code of the "<" (no alignment) formats
CodeSize(c) ==
    CASE c = "B" -> 1
      [] c = "x" -> 1
      [] c = "1s" -> 1
      [] c = "h" -> 2
      [] c = "L" -> 4
      [] c = "l" -> 4
      [] c = "4s" -> 4
      [] c = "q" -> 8
      [] c = "8s" -> 8

RECURSIVE CalcSize(_)
CalcSize(fmt) == IF fmt = <<>> THEN 0 ELSE CodeSize(Head(fmt)) + CalcSize(Tail(fmt))

\* the codes of a format that produce a value (pad bytes "x" produce none)
ValueCodes(fmt) == SelectSeq(fmt, LAMBDA c : c # "x")

\* struct.unpack(fmt, b) for Len(b) = CalcSize(fmt): one raw little-endian
\* byte string per produced value
RECURSIVE UnpackFrom(_, _)
UnpackFrom(fmt, b) ==
    IF fmt = <<>> THEN <<>>
    ELSE LET w == CodeSize(Head(fmt))
             rest == UnpackFrom(Tail(fmt), SubSeq(b, w + 1, Len(b)))
         IN  IF Head(fmt) = "x" THEN rest ELSE <<SubSeq(b, 1, w)>> \o rest

(***************************************************************************)
(* bytes.decode("utf-8") and str.strip()                                   *)
(***************************************************************************)
IsCont(s, k) == k <= Len(s) /\ s[k] >= 128 /\ s[k] <= 191

\* TRUE iff the bytes from offset k on are well-formed UTF-8
RECURSIVE Utf8From(_, _)
Utf8From(s, k) ==
    IF k > Len(s) THEN TRUE
    ELSE LET c == s[k] IN
         CASE c <= 127 -> Utf8From(s, k + 1)
           [] c >= 194 /\ c <= 223 -> IsCont(s, k + 1) /\ Utf8From(s, k + 2)
           [] c >= 224 /\ c <= 239 ->
                /\ IsCont(s, k + 1) /\ IsCont(s, k + 2)
                /\ (c = 224 => s[k + 1] >= 160)
                /\ (c = 237 => s[k + 1] <= 159)
                /\ Utf8From(s, k + 3)
           [] c >= 240 /\ c <= 244 ->
                /\ IsCont(s, k + 1) /\ IsCont(s, k + 2) /\ IsCont(s, k + 3)
                /\ (c = 240 => s[k + 1] >= 144)
                /\ (c = 244 => s[k + 1] <= 143)
                /\ Utf8From(s, k + 4)
           [] OTHER -> FALSE

Utf8Valid(s) == Utf8From(s, 1)

\* the ASCII characters str.strip() removes
Whitespace == {9, 10, 11, 12, 13, 28, 29, 30, 31, 32}

RECURSIVE LStrip(_)
LStrip(s) == IF s # <<>> /\ Head(s) \in Whitespace THEN LStrip(Tail(s)) ELSE s

RECURSIVE RStrip(_)
RStrip(s) ==
    IF s # <<>> /\ s[Len(s)] \in Whitespace THEN RStrip(SubSeq(s, 1, Len(s) - 1)) ELSE s

Strip(s) == LStrip(RStrip(s))

(***************************************************************************)
(* messages.py: the version-keyed registry and the message classes         *)
(***************************************************************************)
Versions == {"1.0", "1.5", "1.6"}

MessageKinds ==
    {"SystemEvent", "SecurityDirective", "TradingStatus", "OperationalHalt",
     "ShortSalePriceSale", "SecurityEvent", "BidPriceLevelUpdate",
     "AskPriceLevelUpdate", "QuoteUpdate", "TradeReport", "OfficialPrice",
     "TradeBreak", "AuctionInformation"}

Entry(c, f) == [cls |-> c, fmt |-> f]

\* the entries shared by versions 1.0 and 1.6
CommonTypes ==
    (83 :> Entry("SystemEvent", <<"B", "q">>)) @@
    (68 :> Entry("SecurityDirective", <<"B", "q", "8s", "L", "q", "B">>)) @@
    (72 :> Entry("TradingStatus", <<"1s", "q", "8s", "4s">>)) @@
    (79 :> Entry("OperationalHalt", <<"1s", "q", "8s">>)) @@
    (80 :> Entry("ShortSalePriceSale", <<"B", "q", "8s", "1s">>)) @@
    (84 :> Entry("TradeReport", <<"B", "q", "8s", "L", "q", "q">>)) @@
    (88 :> Entry("OfficialPrice", <<"1s", "q", "8s", "q">>)) @@
    (66 :> Entry("TradeBreak", <<"1s", "q", "8s", "L", "q", "q">>)) @@
    (65 :> Entry("AuctionInformation",
                 <<"1s", "q", "8s", "L", "q", "q", "L", "1s", "B", "L",
                   "q", "q", "q", "q">>))

\* a registry that is the same for every version
UnversionedTypes ==
    [v \in Versions |->
        CommonTypes @@
        (81 :> Entry("QuoteUpdate", <<"B", "q", "8s", "L", "q", "q", "L">>))]

\* MessageDecoder.message_types, keyed by version and by tag byte
message_types ==
    [v \in Versions |->
        CASE v = "1.0" ->
                CommonTypes @@
                (69 :> Entry("SecurityEvent", <<"B", "q", "8s">>)) @@
                (56 :> Entry("BidPriceLevelUpdate", <<"B", "q", "8s", "l", "q">>)) @@
                (53 :> Entry("AskPriceLevelUpdate", <<"B", "q", "8s", "l", "q">>))
          [] v = "1.6" ->
                CommonTypes @@
                (81 :> Entry("QuoteUpdate", <<"B", "q", "8s", "L", "q", "q", "L">>))
          [] v = "1.5" ->
                (81 :> Entry("QuoteUpdate", <<"B", "q", "8s", "L", "q", "q", "L">>)) @@
                (84 :> Entry("TradeReport",
                             <<"B", "q", "8s", "L", "q", "q", "x", "x", "x", "x">>)) @@
                (66 :> Entry("TradeBreak",
                             <<"1s", "q", "8s", "q", "q", "x", "x", "x", "x">>))]

\* MessageDecoder.DECODE_FMT and MSG_CLS of the decoder built for version v,
\* at tag t
DECODE_FMT(v, t) == message_types[v][t].fmt

MSG_CLS(v, t) == message_types[v][t].cls

\* the constructor parameters of each dataclass, in order
ClassFields(cls) ==
    CASE cls = "SystemEvent" -> <<"system_event", "timestamp">>
      [] cls = "SecurityDirective" ->
            <<"flags", "timestamp", "symbol", "round_lot_size",
              "adjusted_poc_close", "luld_tire">>
      [] cls = "TradingStatus" -> <<"status", "timestamp", "symbol", "reason">>
      [] cls = "OperationalHalt" -> <<"halt_status", "timestamp", "symbol">>
      [] cls = "ShortSalePriceSale" ->
            <<"short_sale_status", "timestamp", "symbol", "detail">>
      [] cls = "SecurityEvent" -> <<"security_event", "timestamp", "symbol">>
      [] cls = "BidPriceLevelUpdate" ->
            <<"event_flags", "timestamp", "symbol", "size", "price_int">>
      [] cls = "AskPriceLevelUpdate" ->
            <<"event_flags", "timestamp", "symbol", "size", "price_int">>
      [] cls = "QuoteUpdate" ->
            <<"flags", "timestamp", "symbol", "bid_size", "bid_price_int",
              "ask_price_int", "ask_size">>
      [] cls = "TradeReport" ->
            <<"flags", "timestamp", "symbol", "size", "price_int", "trade_id">>
      [] cls = "OfficialPrice" -> <<"price_type", "timestamp", "symbol", "price_int">>
      [] cls = "TradeBreak" ->
            <<"sale_flags", "timestamp", "symbol", "size", "price_int", "trade_id">>
      [] cls = "AuctionInformation" ->
            <<"auction_type", "timestamp", "symbol", "paired_shares",
              "reference_price_int", "indicative_clearing_price_int",
              "imbalance_shares", "imbalance_side", "extension_number",
              "scheduled_auction_time", "auction_book_clearing_price_int",
              "collar_reference_price_int", "lower_auction_collar_price_int",
              "upper_auction_collar_price_int">>

\* the __slots__ of each dataclass: the constructor parameters and the
\* attributes __post_init__ is to set
Slots(cls) ==
    CASE cls = "SystemEvent" -> <<"system_event", "timestamp", "system_event_str">>
      [] cls = "SecurityDirective" ->
            <<"flags", "timestamp", "symbol", "round_lot_size",
              "adjusted_poc_close", "luld_tire", "price">>
      [] cls = "TradingStatus" ->
            <<"status", "timestamp", "symbol", "reason", "trading_status_message">>
      [] cls = "OperationalHalt" -> <<"halt_status", "timestamp", "symbol">>
      [] cls = "ShortSalePriceSale" ->
            <<"short_sale_status", "timestamp", "symbol", "detail">>
      [] cls = "SecurityEvent" -> <<"security_event", "timestamp", "symbol">>
      [] cls = "BidPriceLevelUpdate" ->
            <<"event_flags", "timestamp", "symbol", "size", "price_int", "price">>
      [] cls = "AskPriceLevelUpdate" ->
            <<"event_flags", "timestamp", "symbol", "size", "price_int", "price">>
      [] cls = "QuoteUpdate" ->
            <<"flags", "timestamp", "symbol", "bid_size", "bid_price_int",
              "ask_price_int", "ask_size", "bid_price", "ask_price">>
      [] cls = "TradeReport" ->
            <<"flags", "timestamp", "symbol", "size", "price_int", "trade_id", "price">>
      [] cls = "OfficialPrice" ->
            <<"price_type", "timestamp", "symbol", "price_int", "price">>
      [] cls = "TradeBreak" ->
            <<"sale_flags", "timestamp", "symbol", "size", "price_int", "price",
              "trade_id">>
      [] cls = "AuctionInformation" ->
            <<"auction_type", "timestamp", "symbol", "paired_shares",
              "reference_price_int", "indicative_clearing_price_int",
              "imbalance_shares", "imbalance_side", "extension_number",
              "scheduled_auction_time", "auction_book_clearing_price_int",
              "collar_reference_price_int", "lower_auction_collar_price_int",
              "upper_auction_collar_price_int", "reference_price",
              "indicative_clearing_price", "auction_book_clearing_price",
              "collar_reference_price", "lower_auction_collar_price",
              "upper_auction_collar_price">>

\* p.split("_int")[0] for the slot names p with "price" in p and "int" in p
PriceOfInt ==
    [price_int |-> "price",
     bid_price_int |-> "bid_price",
     ask_price_int |-> "ask_price",
     reference_price_int |-> "reference_price",
     indicative_clearing_price_int |-> "indicative_clearing_price",
     auction_book_clearing_price_int |-> "auction_book_clearing_price",
     collar_reference_price_int |-> "collar_reference_price",
     lower_auction_collar_price_int |-> "lower_auction_collar_price",
     upper_auction_collar_price_int |-> "upper_auction_collar_price"]

\* int_prices of Message.__post_init__: the slots of the class whose name
\* holds both "price" and "int"
int_prices(cls) == SelectSeq(Slots(cls), LAMBDA p : p \in DOMAIN PriceOfInt)

\* the struct codes of signed integers
IsSignedCode(c) == c \in {"h", "l", "q"}

\* the integer struct.unpack makes of the little-endian bytes raw under code
\* c is negative
IsNegative(c, raw) == IsSignedCode(c) /\ raw[Len(raw)] >= 128

\* the position of name n in the sequence names
IndexOf(names, n) == CHOOSE k \in 1..Len(names) : names[k] = n

\* keys of system_event_types and of trading_status_messages ("H","O","P","T")
system_event_types == {79, 83, 82, 67, 69, 77}

trading_status_messages == {<<72>>, <<79>>, <<80>>, <<84>>}

\* the attributes Message.__post_init__ decodes and strips when they are bytes
str_fields == {"symbol", "status", "reason", "detail", "halt_status"}


IsBytesCode(c) == c \in {"1s", "4s", "8s"}

NoMessage == [cls |-> "None"]

Failed(e, detail) == [exc |-> e, detail |-> detail, msg |-> NoMessage]

\* whether constructor parameter k (named names[k], unpacked with code
\* codes[k]) is one Message.__post_init__ decodes and strips
IsStrField(names, codes, k) == names[k] \in str_fields /\ IsBytesCode(codes[k])

\* the subclass's own __post_init__, after Message.__post_init__ left obj
SubclassPostInit(obj) ==
    IF obj.cls = "SystemEvent" /\ obj.vals[1][1] \notin system_event_types
    THEN Failed("KeyError", obj.vals[1][1])
    ELSE IF obj.cls = "TradingStatus" /\ obj.vals[1] \notin trading_status_messages
    THEN Failed("KeyError", -1)
    ELSE [exc |-> "", detail |-> -1, msg |-> obj]

\* lines 223-228 of Message.__post_init__: the float attributes set from the
\* *_int attributes vals (by name), each the quotient of that integer (kept
\* as its bytes) and 10 ** 4
DerivedPrices(cls, names, vals) ==
    [a \in {PriceOfInt[p] : p \in {int_prices(cls)[k] : k \in 1..Len(int_prices(cls))}} |->
        [num |-> vals[IndexOf(names,
                              CHOOSE p \in DOMAIN PriceOfInt :
                                  PriceOfInt[p] = a /\ \E k \in 1..Len(names) : names[k] = p)],
         den |-> 10000]]

\* Message.__post_init__ on the object built from the unpacked values raw
\* (one per constructor parameter, in order), then the subclass's; negative
\* holds the integer attributes whose value is below zero
MessagePostInit(cls, names, codes, raw) ==
    IF \E k \in 1..Len(names) : IsStrField(names, codes, k) /\ ~Utf8Valid(raw[k])
    THEN Failed("UnicodeDecodeError", -1)
    ELSE SubclassPostInit(
            [cls |-> cls, fields |-> names,
             vals |-> [k \in 1..Len(names) |->
                          IF IsStrField(names, codes, k) THEN Strip(raw[k]) ELSE raw[k]],
             negative |-> {names[k] : k \in {j \in 1..Len(names) : IsNegative(codes[j], raw[j])}},
             prices |-> DerivedPrices(cls, names, raw)])

\* struct.unpack(fmt, binary_msg) and cls(*decoded_msg)
Construct_msg(cls, fmt, binary_msg) ==
    IF Len(binary_msg) # CalcSize(fmt) THEN Failed("struct.error", -1)
    ELSE IF Len(ValueCodes(fmt)) # Len(ClassFields(cls)) THEN Failed("TypeError", -1)
    ELSE MessagePostInit(cls, ClassFields(cls), ValueCodes(fmt),
                         UnpackFrom(fmt, binary_msg))

\* MessageDecoder.decode_message for the decoder built for version v
decode_message(v, msg_type, binary_msg) ==
    IF msg_type \notin DOMAIN message_types[v]
    THEN Failed("ProtocolException", msg_type)
    ELSE Construct_msg(MSG_CLS(v, msg_type), DECODE_FMT(v, msg_type), binary_msg)

(***************************************************************************)
(* IEXparser.py: the Parser object                                         *)
(***************************************************************************)
VARIABLES
    layout,        \* how the capture file was assembled (ghost, never read by the parser)
    file,          \* the bytes of the capture file
    args,          \* the constructor arguments [tops, deep, version]
    phase,         \* "new" before Parser(...), "ready" once constructed, "failed" if
                   \* __init__ raised, "closed" once the `with` block was left
    file_open,     \* self.file is open
    pos,           \* self.file.tell()
    version,       \* the version the MessageDecoder was built for
    tp_header,     \* self.tp_header
    messages_left, \* self.messages_left
    bytes_read,    \* self.bytes_read
    header,        \* cur_msg_payload_len, cur_stream_offset, first_sequence_number, cur_send_time
    message_type,  \* self.message_type
    message_binary,\* self.message_binary
    message,       \* self.message
    calls,         \* how many internal methods the caller invoked directly
    iter,          \* ghost: the iteration so far, [allowed, out] (see Iterated)
    last,          \* the last call: [op, arg, exc, ret, detail, frames]
    num_tries,     \* the retry counter in the closure of http_retry (IEX_API.py)
    http           \* the wrapped IEX_API._request: [pc, invoked, slept, made, ret, exc]

vars == <<layout, file, args, phase, file_open, pos, version, tp_header, messages_left,
          bytes_read, header, message_type, message_binary, message, calls, iter,
          last, num_tries, http>>

\* an attribute that was never assigned
Unset == "unset"

\* a local name that was never bound
Unbound == [unbound |-> TRUE]

NoHeader == [cur_msg_payload_len |-> Unset]

\* the fixed bytes of the IEX-TP header (Parser.__init__)
version_byte == <<1>>

reserved == <<0>>

protcol_ids == ("1.5" :> <<2, 128>>) @@ ("1.6" :> <<3, 128>>)

deep_protocol_id == <<4, 128>>

channel_id == <<1, 0, 0, 0>>

\* Parser.messages_types with the tags of TradeReport and QuoteUpdate exchanged
messages_typesExchanged ==
    [k \in MessageKinds |->
        CASE k = "ShortSalePriceSale" -> 80
          [] k = "TradeBreak" -> 66
          [] k = "AuctionInformation" -> 65
          [] k = "TradeReport" -> 81
          [] k = "OfficialPrice" -> 88
          [] k = "SystemEvent" -> 83
          [] k = "SecurityDirective" -> 68
          [] k = "TradingStatus" -> 72
          [] k = "OperationalHalt" -> 79
          [] k = "QuoteUpdate" -> 84
          [] k = "SecurityEvent" -> 69
          [] k = "BidPriceLevelUpdate" -> 56
          [] k = "AskPriceLevelUpdate" -> 53]

\* Parser.messages_types: message class -> tag byte
messages_types ==
    [k \in MessageKinds |->
        CASE k = "ShortSalePriceSale" -> 80
          [] k = "TradeBreak" -> 66
          [] k = "AuctionInformation" -> 65
          [] k = "TradeReport" -> 84
          [] k = "OfficialPrice" -> 88
          [] k = "SystemEvent" -> 83
          [] k = "SecurityDirective" -> 68
          [] k = "TradingStatus" -> 72
          [] k = "OperationalHalt" -> 79
          [] k = "QuoteUpdate" -> 81
          [] k = "SecurityEvent" -> 69
          [] k = "BidPriceLevelUpdate" -> 56
          [] k = "AskPriceLevelUpdate" -> 53]

\* the mutable attributes of the parser as one value; `frames` is a ghost log
\* of the frames _read_next_message consumed during the current call
Self ==
    [file_open |-> file_open, pos |-> pos, messages_left |-> messages_left,
     bytes_read |-> bytes_read, header |-> header, message_type |-> message_type,
     message_binary |-> message_binary, message |-> message, frames |-> <<>>]

Ok(s) == [exc |-> "", s |-> s]

Raise(e, s) == [exc |-> e, s |-> s]

\* self.file.read(n) of the buffered binary file object
FileRead(s, n) ==
    IF ~s.file_open \/ n < -1
    THEN [exc |-> "ValueError", data |-> <<>>, s |-> s]
    ELSE [exc |-> "",
          data |-> Slice(file, s.pos, IF n = -1 THEN Len(file) ELSE s.pos + n),
          s |-> [s EXCEPT !.pos = Min(Len(file), IF n = -1 THEN Len(file) ELSE @ + n)]]

\* a read_chunk that hands back the empty read at the end of the file
CountChunkNoStop(r) ==
    IF r.exc # "" THEN r
    ELSE [exc |-> "", data |-> r.data, s |-> [r.s EXCEPT !.bytes_read = @ + Len(r.data)]]

\* Parser.read_chunk, lines 222-226, on the outcome r of self.file.read(chunk)
CountChunk(r) ==
    IF r.exc # "" THEN r
    ELSE [exc |-> IF r.data # <<>> THEN "" ELSE "StopIteration",
          data |-> r.data,
          s |-> [r.s EXCEPT !.bytes_read = @ + Len(r.data)]]

\* a read_chunk that counts the bytes asked for, not the bytes read
CountRequested(s, chunk) ==
    [CountChunk(FileRead(s, chunk)) EXCEPT !.s.bytes_read = s.bytes_read + chunk]

\* Parser.read_chunk
read_chunk(s, chunk) == CountChunk(FileRead(s, chunk))

\* the offset after the line that starts at offset p: after the next byte 10,
\* or the end of the file
LineEnd(p) ==
    IF \E k \in (p + 1)..Len(file) : file[k] = 10
    THEN CHOOSE k \in (p + 1)..Len(file) :
            file[k] = 10 /\ \A j \in (p + 1)..(k - 1) : file[j] # 10
    ELSE Len(file)

\* self.file.readline()
FileReadline(s) ==
    IF ~s.file_open THEN [exc |-> "ValueError", data |-> <<>>, s |-> s]
    ELSE [exc |-> "", data |-> Slice(file, s.pos, LineEnd(s.pos)),
          s |-> [s EXCEPT !.pos = LineEnd(s.pos)]]

\* Parser.read_next_line: lines 201-206, the same counting as read_chunk
read_next_line(s) == CountChunk(FileReadline(s))

\* a scan that, on a mismatch, tests the byte against the first prefix byte
SeekCompareRetest(st, r) ==
    IF r.exc # "" THEN [st EXCEPT !.s = r.s, !.exc = r.exc]
    ELSE IF r.data = <<>> THEN [st EXCEPT !.s = r.s, !.exc = "IndexError"]
    ELSE IF r.data[1] = tp_header[st.i + 1]
    THEN [st EXCEPT !.s = r.s, !.i = @ + 1, !.found = (st.i + 1 = Len(tp_header))]
    ELSE [st EXCEPT !.s = r.s, !.i = IF r.data[1] = tp_header[1] THEN 1 ELSE 0]

\* lines 239-244 of Parser._seek_header on the loop state st = [s, i, found,
\* exc] and the outcome r of self.read_chunk(1)
SeekCompare(st, r) ==
    IF r.exc # "" THEN [st EXCEPT !.s = r.s, !.exc = r.exc]
    ELSE IF r.data = <<>> THEN [st EXCEPT !.s = r.s, !.exc = "IndexError"]
    ELSE IF r.data[1] = tp_header[st.i + 1]
    THEN [st EXCEPT !.s = r.s, !.i = @ + 1, !.found = (st.i + 1 = Len(tp_header))]
    ELSE [st EXCEPT !.s = r.s, !.i = 0]

\* one iteration of the `while not found` loop of Parser._seek_header
SeekStep(st) == SeekCompare(st, read_chunk(st.s, 1))

\* up to n iterations of the loop, stopping when it is left (by found or by
\* an exception); the iterations are split in halves to keep evaluation shallow
RECURSIVE SeekLoop(_, _)
SeekLoop(st, n) ==
    IF n = 0 \/ st.found \/ st.exc # "" THEN st
    ELSE IF n = 1 THEN SeekStep(st)
    ELSE SeekLoop(SeekLoop(st, n \div 2), n - (n \div 2))

\* the whole loop: every iteration but the last consumes a byte, so it is
\* left within Len(file) + 1 iterations
SeekScan(s) == SeekLoop([s |-> s, i |-> 0, found |-> FALSE, exc |-> ""], Len(file) + 1)

\* a _seek_header that takes the message count from the first trailer field
UnpackTrailerFirstField(r) ==
    IF r.exc # "" THEN Raise(r.exc, r.s)
    ELSE IF Len(r.data) # CalcSize(<<"h", "h", "q", "q", "q">>)
    THEN Raise("struct.error", r.s)
    ELSE Ok([r.s EXCEPT
               !.header = [cur_msg_payload_len |-> UnpackInt16(SubSeq(r.data, 1, 2)),
                           cur_stream_offset |-> SubSeq(r.data, 5, 12),
                           first_sequence_number |-> SubSeq(r.data, 13, 20),
                           cur_send_time |-> SubSeq(r.data, 21, 28)],
               !.messages_left = UnpackInt16(SubSeq(r.data, 1, 2))])

\* lines 246-253 of Parser._seek_header on the outcome r of self.read_chunk(28)
UnpackTrailer(r) ==
    IF r.exc # "" THEN Raise(r.exc, r.s)
    ELSE IF Len(r.data) # CalcSize(<<"h", "h", "q", "q", "q">>)
    THEN Raise("struct.error", r.s)
    ELSE Ok([r.s EXCEPT
               !.header = [cur_msg_payload_len |-> UnpackInt16(SubSeq(r.data, 1, 2)),
                           cur_stream_offset |-> SubSeq(r.data, 5, 12),
                           first_sequence_number |-> SubSeq(r.data, 13, 20),
                           cur_send_time |-> SubSeq(r.data, 21, 28)],
               !.messages_left = UnpackInt16(SubSeq(r.data, 3, 4))])

\* a _seek_header that reads the trailer past the byte count
AfterScanUncounted(st) ==
    IF st.exc # "" THEN Raise(st.exc, st.s)
    ELSE UnpackTrailer([FileRead(st.s, 28) EXCEPT !.s.bytes_read = st.s.bytes_read])

\* Parser._seek_header after its scan loop ended in loop state st
AfterScan(st) == IF st.exc # "" THEN Raise(st.exc, st.s) ELSE UnpackTrailer(read_chunk(st.s, 28))

\* Parser._seek_header
seek_header(s) == AfterScan(SeekScan(s))

\* a _read_next_message that leaves the file at the start of the frame
StorePayloadRewinding(s0, message_len, r3) ==
    IF r3.exc # "" THEN Raise(r3.exc, r3.s)
    ELSE Ok([r3.s EXCEPT
               !.pos = s0.pos,
               !.message_binary = r3.data,
               !.frames = Append(@, [at |-> s0.bytes_read, len |-> message_len,
                                     end |-> r3.s.bytes_read,
                                     left |-> s0.messages_left,
                                     left_after |-> r3.s.messages_left,
                                     type |-> r3.s.message_type])])

\* line 307 of Parser._read_next_message on the outcome r3 of
\* self.read_chunk(message_len - 1); s0 is the parser as the method was entered
StorePayload(s0, message_len, r3) ==
    IF r3.exc # "" THEN Raise(r3.exc, r3.s)
    ELSE Ok([r3.s EXCEPT
               !.message_binary = r3.data,
               !.frames = Append(@, [at |-> s0.bytes_read, len |-> message_len,
                                     end |-> r3.s.bytes_read,
                                     left |-> s0.messages_left,
                                     left_after |-> r3.s.messages_left,
                                     type |-> r3.s.message_type])])

\* lines 306-307 on the outcome r2 of self.read_chunk(1)
StoreType(s0, message_len, r2) ==
    IF r2.exc # "" THEN Raise(r2.exc, r2.s)
    ELSE StorePayload(s0, message_len,
                      read_chunk([r2.s EXCEPT !.message_type = r2.data[1]],
                                 message_len - 1))

\* lines 304-307 on the outcome r1 of self.read_chunk(2)
UnpackLength(s0, r1) ==
    IF r1.exc # "" THEN Raise(r1.exc, r1.s)
    ELSE IF Len(r1.data) # CalcSize(<<"h">>) THEN Raise("struct.error", r1.s)
    ELSE StoreType(s0, UnpackInt16(r1.data),
                   read_chunk([r1.s EXCEPT !.messages_left = @ - 1], 1))

\* Parser._read_next_message
read_next_message(s) == UnpackLength(s, read_chunk(s, 2))

\* a get_next_message that looks for a header once (`if` for `while` at
\* line 280)
SeekOnce(s) == IF s.messages_left = 0 THEN seek_header(s) ELSE Ok(s)

\* `while not self.messages_left: self._seek_header()`; SeekAgain continues
\* the loop after a call of _seek_header with outcome r
RECURSIVE SeekWhileEmpty(_)
SeekAgain(r) == IF r.exc # "" THEN r ELSE SeekWhileEmpty(r.s)

SeekWhileEmpty(s) == IF s.messages_left = 0 THEN SeekAgain(seek_header(s)) ELSE Ok(s)

\* self._read_next_message() after the seek loop with outcome a
ThenRead(a) == IF a.exc # "" THEN a ELSE read_next_message(a.s)

\* lines 280-283 (and 285-288): find a header if none is active, read one frame
ReadOne(s) == ThenRead(SeekWhileEmpty(s))

\* the values `allowed` is called with: None, or a container of classes
None == [container |-> "None", items |-> {}]

IsNone(allowed) == allowed.container = "None"

\* lines 277-278: allowed_types, left unbound when `allowed` is falsy
AllowedTypes(allowed) ==
    IF allowed.items # {} THEN [list |-> {messages_types[a] : a \in allowed.items}]
    ELSE Unbound

\* the filter loop of get_next_message, lines 284-288; SkipAgain continues
\* it after the frame read in its body, with outcome r
RECURSIVE SkipLoop(_, _, _)
\* a filter that tests the type once (`if` for `while` at line 284)
SkipAgainOnce(r, allowed, allowed_types) == r

\* a filter that moves past a frame without counting it
SkipAgainUncounted(r, allowed, allowed_types) ==
    IF r.exc # "" THEN r
    ELSE SkipLoop([r.s EXCEPT !.messages_left = @ + 1], allowed, allowed_types)

SkipAgain(r, allowed, allowed_types) ==
    IF r.exc # "" THEN r ELSE SkipLoop(r.s, allowed, allowed_types)

SkipLoop(s, allowed, allowed_types) ==
    IF IsNone(allowed) THEN Ok(s)
    ELSE IF allowed_types = Unbound THEN Raise("UnboundLocalError", s)
    ELSE IF s.message_type \notin allowed_types.list
    THEN SkipAgain(ReadOne(s), allowed, allowed_types)
    ELSE Ok(s)

NoReturn(e, s) == [exc |-> e, s |-> s, ret |-> NoMessage, detail |-> -1]

\* a get_next_message that hands the payload over and keeps none
ReturnEmptied(s, d) ==
    IF d.exc # "" THEN [exc |-> d.exc, s |-> s, ret |-> NoMessage, detail |-> d.detail]
    ELSE [exc |-> "", s |-> [s EXCEPT !.message = d.msg, !.message_binary = <<>>],
          ret |-> d.msg, detail |-> -1]

\* lines 290-293 on the outcome d of decode_message
Return(s, d) ==
    IF d.exc # "" THEN [exc |-> d.exc, s |-> s, ret |-> NoMessage, detail |-> d.detail]
    ELSE [exc |-> "", s |-> [s EXCEPT !.message = d.msg], ret |-> d.msg, detail |-> -1]

\* lines 290-293 after the filter loop with outcome sk
Decode(sk) ==
    IF sk.exc # "" THEN NoReturn(sk.exc, sk.s)
    ELSE Return(sk.s, decode_message(version, sk.s.message_type, sk.s.message_binary))

\* lines 284-293 after the first frame was read with outcome first
Filter(first, allowed, allowed_types) ==
    IF first.exc # "" THEN NoReturn(first.exc, first.s)
    ELSE Decode(SkipLoop(first.s, allowed, allowed_types))

\* a get_next_message that reads a frame before it looks at `allowed`
LateArgumentCheck(s, allowed) ==
    IF allowed.container \notin {"list", "tuple"} /\ ~IsNone(allowed)
    THEN NoReturn("ValueError", ReadOne(s).s)
    ELSE IF \E a \in allowed.items : a \notin DOMAIN messages_types
    THEN NoReturn("KeyError", ReadOne(s).s)
    ELSE Filter(ReadOne(s), allowed, AllowedTypes(allowed))

\* Parser.get_next_message
get_next_message(s, allowed) ==
    IF allowed.container \notin {"list", "tuple"} /\ ~IsNone(allowed)
    THEN NoReturn("ValueError", s)
    ELSE IF \E a \in allowed.items : a \notin DOMAIN messages_types
    THEN NoReturn("KeyError", s)
    ELSE Filter(ReadOne(s), allowed, AllowedTypes(allowed))

\* lines 176-181 of Parser._get_session_id: one iteration of its loop on the
\* loop state [p, i, found, exc], p the offset market_file reads at
SessionStep(st, iex_header_start) ==
    IF st.p >= Len(file) THEN [st EXCEPT !.exc = "IndexError"]
    ELSE IF file[st.p + 1] = iex_header_start[st.i + 1]
    THEN [st EXCEPT !.p = @ + 1, !.i = @ + 1,
                    !.found = (st.i + 1 = Len(iex_header_start))]
    ELSE [st EXCEPT !.p = @ + 1, !.i = 0]

RECURSIVE SessionLoop(_, _, _)
SessionLoop(st, n, iex_header_start) ==
    IF n = 0 \/ st.found \/ st.exc # "" THEN st
    ELSE IF n = 1 THEN SessionStep(st, iex_header_start)
    ELSE SessionLoop(SessionLoop(st, n \div 2, iex_header_start), n - (n \div 2),
                     iex_header_start)

\* `return market_file.read(4)` after the loop ended in loop state st
ReadSession(st) ==
    IF st.exc # "" THEN [exc |-> st.exc, session_id |-> <<>>]
    ELSE [exc |-> "", session_id |-> Slice(file, st.p, st.p + 4)]

\* Parser._get_session_id on a parser whose protocol id, if it has one, is
\* protocol_id
get_session_id(has_protocol_id, protocol_id) ==
    IF ~has_protocol_id THEN [exc |-> "AttributeError", session_id |-> <<>>]
    ELSE ReadSession(SessionLoop([p |-> 0, i |-> 0, found |-> FALSE, exc |-> ""],
                                 Len(file) + 1,
                                 version_byte \o reserved \o protocol_id \o channel_id))

InitFailed(e) == [exc |-> e, tp_header |-> <<>>, version |-> Unset]

\* lines 88-116 of Parser.__init__ on the outcome sid of _get_session_id
BuildHeader(protocol_id, v, sid) ==
    IF sid.exc # "" THEN InitFailed(sid.exc)
    ELSE IF v \notin Versions THEN InitFailed("KeyError")
    ELSE [exc |-> "",
          tp_header |-> version_byte \o reserved \o protocol_id \o channel_id
                        \o sid.session_id,
          version |-> v]

\* Parser.__init__(file_path, tops, deep, version): the exception it ends
\* with, or the header prefix and decoder version of the new parser
init(a) ==
    IF a.tops /\ ~a.deep
    THEN IF a.version \notin DOMAIN protcol_ids THEN InitFailed("KeyError")
         ELSE BuildHeader(protcol_ids[a.version], a.version,
                          get_session_id(TRUE, protcol_ids[a.version]))
    ELSE IF a.deep
    THEN BuildHeader(deep_protocol_id, "1.0", get_session_id(TRUE, deep_protocol_id))
    ELSE BuildHeader(<<>>, a.version, get_session_id(FALSE, <<>>))

(***************************************************************************)
(* Capture files.  A file is assembled from a layout: segments (header     *)
(* prefix, 28-byte trailer, frames), each preceded by filler bytes, as the *)
(* IEX-TP segments of a pcap capture are preceded by packet headers.       *)
(***************************************************************************)
MaxSegments == 2

MaxCount == 2

SessA == <<74, 11, 92, 5>>

SessB == <<74, 11, 92, 6>>

ProtocolIdOf(proto) == IF proto = "1.0" THEN deep_protocol_id ELSE protcol_ids[proto]

\* the 12-byte segment header prefix carrying session id sess
Prefix(proto, sess) ==
    version_byte \o reserved \o ProtocolIdOf(proto) \o channel_id \o sess

\* the 28-byte trailer "<hhqqq": payload length, message count, three int64
Trailer(payload_len, count) == PackInt16(payload_len) \o PackInt16(count) \o Zeros(24)

\* one message frame: wire length, type tag, payload
Frame(tag, payload) == PackInt16(Len(payload) + 1) \o <<tag>> \o payload

Symbol == <<90, 86, 90, 90, 84, 32, 32, 32>>

\* the frame of kind k that is the j-th frame of the file (j goes into the
\* low byte of the timestamp, so that frames differ)
FrameBytes(L, k, j) ==
    LET ts == <<j>> \o Zeros(7) IN
    CASE k = "SE" -> Frame(83, <<79>> \o ts)
      [] k = "BADSE" -> Frame(83, <<0>> \o ts)
      [] k = "SHORT" -> Frame(83, <<79, j>> \o Zeros(6))
      [] k = "TR" -> Frame(84, <<0>> \o ts \o Symbol \o Zeros(20))
      [] k = "TR15" -> Frame(84, <<0>> \o ts \o Symbol \o Zeros(24))
      [] k = "TRH" -> Frame(84, <<0>> \o ts \o Symbol \o Zeros(4)
                                \o Prefix(L.proto, SessA) \o Zeros(4))
      [] k = "BADSYM" -> Frame(84, <<0>> \o ts \o <<255>> \o Zeros(27))
      [] k = "QU" -> Frame(81, <<0>> \o ts \o Symbol \o Zeros(24))
      [] k = "SEV" -> Frame(69, <<0>> \o ts \o Symbol)
      [] k = "TB" -> Frame(66, <<0>> \o ts \o Symbol \o Zeros(20))
      [] k = "UNK" -> Frame(0, <<j>>)
      [] k = "L1" -> PackInt16(1) \o <<83>>
      [] k = "L0" -> PackInt16(0) \o <<83>>
      [] k = "LNEG" -> PackInt16(-2) \o <<83>>

\* the kind of the j-th frame of a file whose frames follow the cyclic pattern pat
KindAt(pat, j) == pat[((j - 1) % Len(pat)) + 1]

RECURSIVE SumTo(_, _)
SumTo(counts, k) == IF k = 0 THEN 0 ELSE counts[k] + SumTo(counts, k - 1)

\* the frames of segment k: counts[k] frames, numbered on from the earlier segments
SegFrames(L, k) ==
    LET base == SumTo(L.counts, k - 1)
    IN  [n \in 1..L.counts[k] |-> FrameBytes(L, KindAt(L.pat, base + n), base + n)]

\* the message count segment k's header declares
Declared(L, k) == IF k = 1 THEN L.counts[k] + L.decl ELSE L.counts[k]

SegBytes(L, k) ==
    LET body == Concat(SegFrames(L, k))
    IN  (IF k = 1 THEN L.pre ELSE L.fill)
        \o Prefix(L.proto, IF L.alt = k THEN SessB ELSE SessA)
        \o Trailer(Len(body), Declared(L, k)) \o body

FileOf(L) ==
    LET whole == Concat([k \in 1..Len(L.counts) |-> SegBytes(L, k)]) \o L.fill
    IN  SubSeq(whole, 1, Len(whole) - Min(L.cut, Len(whole)))

CountSeqs == UNION {[1..n -> 0..MaxCount] : n \in 0..MaxSegments}

\* the longest files whose first segment is full
FullCountSeqs == {c \in CountSeqs : Len(c) = MaxSegments /\ c[1] = MaxCount}

\* pre: the bytes before the first segment; fill: the bytes before every later
\* segment and after the last one
Layout(proto, pat, counts, pre, fill, decl, alt, cut) ==
    [proto |-> proto, pat |-> pat, counts |-> counts, pre |-> pre, fill |-> fill,
     decl |-> decl, alt |-> alt, cut |-> cut]

Args(tops, deep, v) == [tops |-> tops, deep |-> deep, version |-> v]

Tops16 == Args(TRUE, FALSE, "1.6")

Case(L, a) == [layout |-> L, args |-> a]

\* the fillers <<before the first segment, before the others and at the end>>;
\* 1 is the first byte of every segment header
Fillers == {<<<<>>, <<>>>>, <<<<0, 7>>, <<0, 7>>>>, <<<<>>, <<1>>>>, <<<<1, 7>>, <<1, 1>>>>}

\* files of sound segments: frames of registered kinds, filler between segments
SoundCases ==
    {Case(Layout("1.6", <<"SE", "TR">>, c, f[1], f[2], 0, 0, 0), Tops16) :
        c \in CountSeqs,
        f \in Fillers}
    \cup {Case(Layout("1.6", <<"TR", "QU">>, c, <<>>, <<>>, 0, 0, 0), Tops16) :
        c \in FullCountSeqs}

\* files with a frame that does not decode or is not length-consistent
FrameDefectCases ==
    {Case(Layout("1.6", pat, c, <<>>, <<>>, 0, 0, 0), Tops16) :
        pat \in {<<"SE", "UNK">>, <<"UNK", "TR">>, <<"TR", "SHORT">>, <<"BADSE", "TR">>,
                 <<"SE", "L1">>, <<"TR", "L0", "SE">>, <<"LNEG", "SE">>, <<"SEV", "TR">>,
                 <<"TRH", "SE">>, <<"BADSYM", "SE">>},
        c \in FullCountSeqs}

\* files with a defect in the segment structure: a wrong declared count, a
\* header of another session, a truncated end
StructureDefectCases ==
    {Case(Layout("1.6", <<"SE", "TR">>, c, <<0, 7>>, <<0, 7>>, d[1], d[2], d[3]), Tops16) :
        c \in FullCountSeqs \cup {c \in CountSeqs : Len(c) = 1},
        d \in {<<1, 0, 0>>, <<-1, 0, 0>>, <<0, 1, 0>>, <<0, 2, 0>>,
               <<0, 0, 1>>, <<0, 0, 3>>, <<0, 0, 12>>, <<0, 0, 32>>, <<0, 0, 45>>}}

\* the other protocol versions, and constructor arguments that do not fit the file
VersionCases ==
    {Case(Layout(x[1], x[2], c, <<>>, <<>>, 0, 0, 0), x[3]) :
        c \in FullCountSeqs,
        x \in {<<"1.5", <<"QU", "TR15">>, Args(TRUE, FALSE, "1.5")>>,
               <<"1.5", <<"TR", "TB">>, Args(TRUE, FALSE, "1.5")>>,
               <<"1.0", <<"SEV", "TR">>, Args(FALSE, TRUE, "1.6")>>,
               <<"1.0", <<"QU", "SE">>, Args(TRUE, TRUE, "1.6")>>,
               <<"1.6", <<"SE">>, Args(TRUE, FALSE, "1.5")>>,
               <<"1.6", <<"SE">>, Args(TRUE, FALSE, "1.0")>>,
               <<"1.6", <<"SE">>, Args(FALSE, FALSE, "1.6")>>}}

Cases == SoundCases \cup FrameDefectCases \cup StructureDefectCases \cup VersionCases

\* ghost: the messages returned so far and the offsets of their frames (by
\* the count bytes_read as the frame was begun), kept while every call since
\* construction was get_next_message with one and the same argument and none
\* ended with StopIteration; done: the last of them did
NoIteration ==
    [allowed |-> [container |-> "any", items |-> {}], out |-> <<>>, at |-> <<>>,
     done |-> FALSE]

Mixed ==
    [allowed |-> [container |-> "mixed", items |-> {}], out |-> <<>>, at |-> <<>>,
     done |-> FALSE]

(***************************************************************************)
(* The state machine                                                       *)
(***************************************************************************)
NoCall == [op |-> "", arg |-> None, exc |-> "", ret |-> NoMessage, detail |-> -1,
           frames |-> <<>>]

\* no call of the wrapped IEX_API._request was made yet
NoRequest == [pc |-> "idle", invoked |-> 0, slept |-> 0, made |-> 0, ret |-> "", exc |-> ""]

InitFrom(cases) ==
    \E c \in cases :
        /\ layout = c.layout
        /\ args = c.args
        /\ file = FileOf(c.layout)
        /\ phase = "new"
        /\ file_open = FALSE
        /\ pos = 0
        /\ version = Unset
        /\ tp_header = <<>>
        /\ messages_left = Unset
        /\ bytes_read = Unset
        /\ header = NoHeader
        /\ message_type = Unset
        /\ message_binary = Unset
        /\ message = Unset
        /\ calls = 0
        /\ iter = NoIteration
        /\ last = NoCall
        /\ num_tries = 0
        /\ http = NoRequest

Init == InitFrom(Cases)

\* write the attributes of s back to the parser
Commit(s) ==
    /\ file_open' = s.file_open
    /\ pos' = s.pos
    /\ messages_left' = s.messages_left
    /\ bytes_read' = s.bytes_read
    /\ header' = s.header
    /\ message_type' = s.message_type
    /\ message_binary' = s.message_binary
    /\ message' = s.message

\* the iteration after one more get_next_message(allowed) ended with outcome r
Iterated(allowed, r) ==
    IF iter.done \/ iter.allowed \notin {NoIteration.allowed, allowed} THEN Mixed
    ELSE [allowed |-> allowed,
          out |-> IF r.exc = "" THEN Append(iter.out, r.ret) ELSE iter.out,
          at |-> IF r.exc = "" THEN Append(iter.at, r.s.frames[Len(r.s.frames)].at)
                 ELSE iter.at,
          done |-> r.exc = "StopIteration"]

\* the call op(arg) ended with outcome r
Called(op, arg, r) ==
    /\ Commit(r.s)
    /\ iter' = Iterated(arg, r)
    /\ last' = [op |-> op, arg |-> arg, exc |-> r.exc, ret |-> r.ret,
                detail |-> r.detail, frames |-> r.s.frames]

\* an __init__ that leaves the bytes of the session pre-pass counted
ConstructedCounting(r) ==
    /\ phase' = IF r.exc = "" THEN "ready" ELSE "failed"
    /\ file_open' = TRUE
    /\ version' = r.version
    /\ tp_header' = r.tp_header
    /\ pos' = IF r.exc = "" THEN 0 ELSE pos
    /\ messages_left' = IF r.exc = "" THEN 0 ELSE messages_left
    /\ bytes_read' = IF r.exc = "" THEN Len(r.tp_header) ELSE bytes_read
    /\ last' = [NoCall EXCEPT !.op = "__init__", !.exc = r.exc]

\* Parser.__init__ ended with outcome r: lines 65 and 88-98
Constructed(r) ==
    /\ phase' = IF r.exc = "" THEN "ready" ELSE "failed"
    /\ file_open' = TRUE
    /\ version' = r.version
    /\ tp_header' = r.tp_header
    /\ pos' = IF r.exc = "" THEN 0 ELSE pos
    /\ messages_left' = IF r.exc = "" THEN 0 ELSE messages_left
    /\ bytes_read' = IF r.exc = "" THEN 0 ELSE bytes_read
    /\ last' = [NoCall EXCEPT !.op = "__init__", !.exc = r.exc]

\* p = Parser(file_path, tops, deep, version)
Construct ==
    /\ phase = "new"
    /\ Constructed(init(args))
    /\ UNCHANGED <<num_tries, http, layout, file, args, header, message_type,
                   message_binary, message, calls, iter>>

\* the allowed arguments callers pass
Allowed(container, items) == [container |-> container, items |-> items]

AllowedArgs ==
    {None, Allowed("list", {}), Allowed("list", {"TradeReport"}),
     Allowed("tuple", {"TradeReport", "QuoteUpdate"}), Allowed("list", {"SystemEvent"}),
     Allowed("set", {"TradeReport"}), Allowed("list", {"TradeReport", "NotAKind"})}

\* p.get_next_message(allowed)
GetNextMessage(allowed) ==
    /\ phase = "ready"
    /\ Called("get_next_message", allowed, get_next_message(Self, allowed))
    /\ UNCHANGED <<num_tries, http, layout, file, args, phase, version, tp_header, calls>>

\* p.__exit__(): leaving the `with` block, after which the parser is not used
Exit ==
    /\ phase = "ready"
    /\ file_open
    /\ Commit([Self EXCEPT !.file_open = FALSE])
    /\ phase' = "closed"
    /\ last' = [NoCall EXCEPT !.op = "__exit__"]
    /\ UNCHANGED <<num_tries, http, layout, file, args, version, tp_header, calls, iter>>

Next ==
    \/ Construct
    \/ \E allowed \in AllowedArgs : GetNextMessage(allowed)
    \/ Exit

Spec == Init /\ [][Next]_vars

(***************************************************************************)
(* The internal methods called directly, as the unit tests call            *)
(* _seek_header: at most MaxCalls direct calls on a constructed parser.    *)
(***************************************************************************)
MaxCalls == 3

\* the direct call op(arg) of a method without return value ended with outcome r
CalledDirectly(op, arg, r) ==
    /\ Commit(r.s)
    /\ calls' = calls + 1
    /\ iter' = Mixed
    /\ last' = [op |-> op, arg |-> arg, exc |-> r.exc, ret |-> NoMessage, detail |-> -1,
                frames |-> r.s.frames]
    /\ UNCHANGED <<num_tries, http, layout, file, args, phase, version, tp_header>>

\* the direct call read_chunk(chunk) ended with outcome r
ReturnedChunk(chunk, r) ==
    /\ Commit(r.s)
    /\ calls' = calls + 1
    /\ iter' = Mixed
    /\ last' = [op |-> "read_chunk", arg |-> chunk, exc |-> r.exc, ret |-> r.data,
                detail |-> -1, frames |-> <<>>]
    /\ UNCHANGED <<num_tries, http, layout, file, args, phase, version, tp_header>>

\* p._seek_header()
SeekHeader ==
    /\ phase = "ready" /\ calls < MaxCalls
    /\ CalledDirectly("_seek_header", None, seek_header(Self))

\* p._read_next_message()
ReadNextMessage ==
    /\ phase = "ready" /\ calls < MaxCalls
    /\ CalledDirectly("_read_next_message", None, read_next_message(Self))

\* the direct call read_next_line() ended with outcome r
ReturnedLine(r) ==
    /\ Commit(r.s)
    /\ calls' = calls + 1
    /\ iter' = Mixed
    /\ last' = [op |-> "read_next_line", arg |-> None, exc |-> r.exc, ret |-> r.data,
                detail |-> -1, frames |-> <<>>]
    /\ UNCHANGED <<num_tries, http, layout, file, args, phase, version, tp_header>>

\* p.read_next_line()
ReadNextLine ==
    /\ phase = "ready" /\ calls < MaxCalls
    /\ ReturnedLine(read_next_line(Self))

\* p.get_next_message() among the direct calls
NextMessageDirectly ==
    /\ phase = "ready" /\ calls < MaxCalls
    /\ Called("get_next_message", None, get_next_message(Self, None))
    /\ calls' = calls + 1
    /\ UNCHANGED <<num_tries, http, layout, file, args, phase, version, tp_header>>

\* the chunk sizes read_chunk is called with: those of the parser itself
\* (1, 2, 28, a payload length) and the default
ChunkSizes == {0, 1, 2, 28, 1024}

\* p.read_chunk(chunk)
ReadChunk(chunk) ==
    /\ phase = "ready" /\ calls < MaxCalls
    /\ ReturnedChunk(chunk, read_chunk(Self, chunk))

\* the files of the direct calls
UnitCases ==
    {Case(Layout("1.6", <<"SE", "TR">>, c, f[1], f[2], 0, 0, cut), Tops16) :
        c \in FullCountSeqs,
        f \in Fillers,
        cut \in {0, 5, 35}}

InitUnit == InitFrom(UnitCases)

NextUnit ==
    \/ Construct
    \/ SeekHeader
    \/ ReadNextMessage
    \/ ReadNextLine
    \/ NextMessageDirectly
    \/ \E chunk \in ChunkSizes : ReadChunk(chunk)

SpecUnit == InitUnit /\ [][NextUnit]_vars

(***************************************************************************)
(* messages.py on its own: a MessageDecoder(version) asked to decode a tag *)
(* and a payload.                                                          *)
(***************************************************************************)
Tags == UNION {DOMAIN message_types[v] : v \in Versions} \cup {0}

Widths == UNION {{CalcSize(DECODE_FMT(v, t)) : t \in DOMAIN message_types[v]} : v \in Versions}

PayloadLengths == UNION {{w - 1, w, w + 1} : w \in Widths}

\* payloads of n bytes: zeros; a first byte that is a system event code and a
\* trading status; a byte that is no UTF-8 where the symbol starts; a payload
\* of distinct bytes with 255 in bytes 18..21, where the messages with a size
\* have it
PayloadsOfLength(n) ==
    {Zeros(n)}
    \cup (IF n >= 1 THEN {<<79>> \o Zeros(n - 1)} ELSE {})
    \cup (IF n >= 10 THEN {<<79>> \o Zeros(8) \o <<255>> \o Zeros(n - 10)} ELSE {})
    \cup (IF n >= 22 THEN {[k \in 1..n |-> IF k \in 18..21 THEN 255 ELSE k]} ELSE {})

Payloads == UNION {PayloadsOfLength(n) : n \in PayloadLengths}

\* a decoder of some version and the tag and payload it is about to be given
InitDecoder ==
    /\ layout = Layout("1.6", <<>>, <<>>, <<>>, <<>>, 0, 0, 0)
    /\ args \in [version : Versions, msg_type : Tags, binary_msg : Payloads]
    /\ file = <<>>
    /\ phase = "decoder"
    /\ file_open = FALSE
    /\ pos = 0
    /\ version = args.version
    /\ tp_header = <<>>
    /\ messages_left = Unset
    /\ bytes_read = Unset
    /\ header = NoHeader
    /\ message_type = Unset
    /\ message_binary = Unset
    /\ message = Unset
    /\ calls = 0
    /\ iter = NoIteration
    /\ last = NoCall
    /\ num_tries = 0
    /\ http = NoRequest

\* the call decoder.decode_message(msg_type, binary_msg) ended with outcome d
Decoded(msg_type, binary_msg, d) ==
    last' = [op |-> "decode_message",
             arg |-> [msg_type |-> msg_type, binary_msg |-> binary_msg],
             exc |-> d.exc, ret |-> d.msg, detail |-> d.detail, frames |-> <<>>]

\* decoder.decode_message(msg_type, binary_msg)
DecodeMessage ==
    /\ phase = "decoder"
    /\ phase' = "decoded"
    /\ Decoded(args.msg_type, args.binary_msg,
               decode_message(version, args.msg_type, args.binary_msg))
    /\ UNCHANGED <<num_tries, http, layout, file, args, file_open, pos, version, tp_header,
                   messages_left, bytes_read, header, message_type, message_binary,
                   message, calls, iter>>

NextDecoder == DecodeMessage

SpecDecoder == InitDecoder /\ [][NextDecoder]_vars

(***************************************************************************)
(* What the claims speak of                                                *)
(***************************************************************************)
\* the byte string sub occurs in f at an offset of at least from
Occurs(sub, f, from) ==
    \E k \in from..(Len(f) - Len(sub)) : SubSeq(f, k + 1, k + Len(sub)) = sub

\* the sum of the message counts the segment headers of the file declare
SumDeclared(L) == SumTo([k \in 1..Len(L.counts) |-> Declared(L, k)], Len(L.counts))

\* the offset at which the header of segment k begins
RECURSIVE HeaderAt(_, _)
HeaderAt(L, k) ==
    IF k = 1 THEN Len(L.pre)
    ELSE HeaderAt(L, k - 1) + Len(SegBytes(L, k - 1)) - Len(IF k = 2 THEN L.pre ELSE L.fill)
         + Len(L.fill)

\* the session id in the header of segment k
SessionOf(L, k) == IF L.alt = k THEN SessB ELSE SessA

\* the frame (length, tag, payload) is one the decoder of version v decodes
Decodes(v, frame) ==
    /\ Len(frame) >= 3
    /\ decode_message(v, frame[3], SubSeq(frame, 4, Len(frame))).exc = ""

\* the file is made of whole segments of the parser's session, each with as
\* many frames as its header declares, every frame one the decoder decodes,
\* and of filler that does not contain the header prefix
SoundFile ==
    /\ layout.decl = 0 /\ layout.alt = 0 /\ layout.cut = 0
    /\ tp_header = Prefix(layout.proto, SessA)
    /\ ~Occurs(tp_header, layout.pre, 0) /\ ~Occurs(tp_header, layout.fill, 0)
    /\ \A k \in 1..Len(layout.counts) :
          \A n \in 1..layout.counts[k] : Decodes(version, SegFrames(layout, k)[n])

\* the parser as __init__ leaves it
Fresh ==
    [file_open |-> TRUE, pos |-> 0, messages_left |-> 0, bytes_read |-> 0,
     header |-> NoHeader, message_type |-> Unset, message_binary |-> Unset,
     message |-> Unset, frames |-> <<>>]

\* the messages that get_next_message(allowed), called again and again from
\* parser state s until a call ends with StopIteration, returns; fuel bounds
\* the number of calls
RECURSIVE RunFrom(_, _, _)
RunNext(r, allowed, fuel) ==
    IF r.exc = "StopIteration" THEN <<>>
    ELSE (IF r.exc = "" THEN <<r.ret>> ELSE <<>>)
         \o RunFrom([r.s EXCEPT !.frames = <<>>], allowed, fuel - 1)

RunFrom(s, allowed, fuel) ==
    IF fuel = 0 THEN <<>> ELSE RunNext(get_next_message(s, allowed), allowed, fuel)

\* the messages an unfiltered pass over the file returns
Unfiltered == RunFrom(Fresh, None, Len(file) + 1)

\* the parser state that unfiltered calls from state s reach once target bytes
\* are consumed (or no call consumes any more)
RECURSIVE UnfilteredUpTo(_, _, _)
UpToNext(r, s, target, fuel) ==
    IF r.s.bytes_read = s.bytes_read THEN r.s
    ELSE UnfilteredUpTo([r.s EXCEPT !.frames = <<>>], target, fuel - 1)

UnfilteredUpTo(s, target, fuel) ==
    IF s.bytes_read >= target \/ fuel = 0 THEN s
    ELSE UpToNext(get_next_message(s, None), s, target, fuel)

\* the step leaves the parser in state s
LeavesParserIn(s) == Self' = [s EXCEPT !.frames = <<>>]

\* every frame of the log took 2 + its wire length bytes and one unit of
\* messages_left
FramesCounted(frames) ==
    \A k \in DOMAIN frames :
        /\ frames[k].end - frames[k].at = 2 + frames[k].len
        /\ frames[k].left_after = frames[k].left - 1

IsFilter(allowed) ==
    /\ allowed.container \in {"list", "tuple"}
    /\ allowed.items \subseteq MessageKinds

(***************************************************************************)
(* The claims                                                              *)
(***************************************************************************)
\* C1: on a file of sound segments separated by filler that does not contain
\* the header prefix, get_next_message() called without a filter until it
\* ends with StopIteration returns as many messages as the segment headers
\* declare in sum.
C1_SumOfDeclaredCounts ==
    (phase = "ready" /\ SoundFile /\ iter.done /\ iter.allowed = None)
        => Len(iter.out) = SumDeclared(layout)

\* C2: get_next_message(A), called until it ends with StopIteration, returns
\* exactly the messages of kinds in A that unfiltered calls over the same file
\* return, in the same order.
C2_FilterIsSubsequence ==
    (phase = "ready" /\ iter.done /\ IsFilter(iter.allowed))
        => iter.out = SelectSeq(Unfiltered, LAMBDA m : m.cls \in iter.allowed.items)

C2_Witness ==
    /\ phase = "ready" /\ iter.done
    /\ iter.allowed = Allowed("list", {"TradeReport"})
    /\ Len(iter.out) >= 2
    /\ Len(Unfiltered) > Len(iter.out)

C4_UnregisteredTagFails ==
    (last.op = "get_next_message" /\ (IsNone(last.arg) \/ last.arg.items # {}))
        => \A k \in DOMAIN last.frames :
              last.frames[k].type \notin DOMAIN message_types[version]
                  => /\ last.exc = "ProtocolException"
                     /\ last.detail = last.frames[k].type

\* C5: decode_message(tag, payload) ends with ProtocolException whenever the
\* tag is registered and the payload is not as long as the tag's layout.
C5_WrongLengthIsProtocolError ==
    (/\ last.op = "decode_message"
     /\ last.arg.msg_type \in DOMAIN message_types[version]
     /\ Len(last.arg.binary_msg) # CalcSize(DECODE_FMT(version, last.arg.msg_type)))
        => last.exc = "ProtocolException"

\* C6: a call that comes upon a segment header whose session id is not the
\* pinned one ends with ProtocolException.
C6_SessionMismatchFails ==
    [][\A k \in 1..Len(layout.counts) :
          (/\ phase = "ready" /\ last'.op = "get_next_message"
           /\ layout.decl = 0 /\ layout.cut = 0
           /\ SessionOf(layout, k) # SubSeq(tp_header, 9, 12)
           /\ bytes_read <= HeaderAt(layout, k)
           /\ bytes_read' >= HeaderAt(layout, k) + 12)
              => last'.exc = "ProtocolException"]_vars

\* C7: constructing a parser on a file in which the 8-byte header start of
\* the chosen protocol never occurs ends with ProtocolException.
C7_NoSessionIsProtocolError ==
    (/\ last.op = "__init__"
     /\ (args.deep \/ (args.tops /\ args.version \in DOMAIN protcol_ids))
     /\ ~Occurs(version_byte \o reserved
                \o (IF args.deep THEN deep_protocol_id ELSE protcol_ids[args.version])
                \o channel_id, file, 0))
        => last.exc = "ProtocolException"

\* C8: _seek_header ends with StopIteration, the file read to its end, when
\* the header prefix does not occur in what was left of the file; it ends in
\* no way but normally, with StopIteration (only at the end of the file) or
\* with struct.error.
C8_SeekHeaderEndOfStream ==
    [][last'.op = "_seek_header"
          => /\ last'.exc \in {"", "StopIteration", "struct.error"}
             /\ last'.exc = "StopIteration" => pos' = Len(file)
             /\ ~Occurs(tp_header, file, pos)
                   => (last'.exc = "StopIteration" /\ pos' = Len(file))]_vars

C8_Witness ==
    /\ last.op = "_seek_header" /\ last.exc = "StopIteration"
    /\ pos = Len(file) /\ bytes_read > 0
    /\ Occurs(tp_header, file, 0)

\* C9: read_chunk(n) returns exactly n bytes or ends with StopIteration.
C9_ReadChunkExact ==
    last.op = "read_chunk"
        => \/ last.exc = "StopIteration"
           \/ (last.exc = "" /\ Len(last.ret) = last.arg)

\* C10: _read_next_message called with messages_left = 0 ends with
\* StopIteration and leaves pos, bytes_read and messages_left as they were.
C10_NoReadWhenExhausted ==
    [][(last'.op = "_read_next_message" /\ messages_left = 0)
          => /\ last'.exc = "StopIteration"
             /\ pos' = pos /\ bytes_read' = bytes_read /\ messages_left' = 0]_vars

\* `allowed` is None or a list or tuple that names message kinds
IsValidArgument(allowed) == IsNone(allowed) \/ (IsFilter(allowed) /\ allowed.items # {})

\* the offset at which the frames of segment k begin, and the one at which
\* they end
FramesStart(L, k) == HeaderAt(L, k) + Len(Prefix(L.proto, SessA)) + Len(Trailer(0, 0))

FramesEnd(L, k) == FramesStart(L, k) + Len(Concat(SegFrames(L, k)))

\* how many of the frames returned so far lie in segment k
ReturnedFrom(k) ==
    Cardinality({i \in DOMAIN iter.at :
                    FramesStart(layout, k) <= iter.at[i] /\ iter.at[i] < FramesEnd(layout, k)})

\* the step is the first direct call of a freshly constructed parser, a
\* _seek_header that found a header
FirstSeek ==
    /\ phase = "ready" /\ calls = 0 /\ last.op = "__init__"
    /\ last'.op = "_seek_header" /\ last'.exc = ""

\* the least offset at which the header prefix occurs in the file
FirstHeaderOffset ==
    CHOOSE k \in 0..(Len(file) - Len(tp_header)) :
        /\ SubSeq(file, k + 1, k + Len(tp_header)) = tp_header
        /\ ~\E j \in 0..(k - 1) : SubSeq(file, j + 1, j + Len(tp_header)) = tp_header

\* C11: a get_next_message call with a valid argument returns a message or
\* ends with StopIteration or with ProtocolException, never in another way.
C11_OnlyTwoFailureKinds ==
    (last.op = "get_next_message" /\ IsValidArgument(last.arg))
        => last.exc \in {"", "StopIteration", "ProtocolException"}

\* C12: get_next_message with an argument that is no list or tuple, or that
\* names something that is no message kind, raises at once: bytes_read,
\* messages_left and the file position are as before the call.
C12_InvalidArgumentReadsNothing ==
    [][(/\ last'.op = "get_next_message"
        /\ ~IsNone(last'.arg) /\ ~IsFilter(last'.arg))
          => /\ last'.exc \in {"ValueError", "KeyError"}
             /\ pos' = pos /\ bytes_read' = bytes_read
             /\ messages_left' = messages_left]_vars

C12_Witness ==
    /\ last.op = "get_next_message" /\ last.exc = "KeyError"
    /\ last.arg = Allowed("list", {"TradeReport", "NotAKind"})
    /\ bytes_read > 0 /\ bytes_read < Len(file) /\ messages_left > 0

\* C13: Parser(file, tops=True, deep=True) is rejected with ValueError and
\* no parser is produced.
C13_ConflictingFlagsRejected ==
    (last.op = "__init__" /\ args.tops /\ args.deep)
        => (last.exc = "ValueError" /\ phase = "failed")

\* C14: on a file of sound segments an unfiltered iteration ends with
\* StopIteration only when every segment has given all its frames and the
\* file is read to its end, and a call made after all frames were returned
\* does end with StopIteration.
C14_EndOnlyWhenAllCountsZero ==
    (phase = "ready" /\ SoundFile /\ iter.allowed = None)
        => /\ iter.done
              => /\ messages_left = 0 /\ pos = Len(file)
                 /\ \A k \in 1..Len(layout.counts) : ReturnedFrom(k) = layout.counts[k]
           /\ (Len(iter.out) = SumDeclared(layout) /\ last.exc # "")
              => last.exc = "StopIteration"

\* C15: once a get_next_message call has ended with StopIteration, the next
\* call with a valid argument ends with StopIteration too.
C15_EndOfStreamIsTerminal ==
    [][(/\ last.op = "get_next_message" /\ last.exc = "StopIteration"
        /\ last'.op = "get_next_message"
        /\ (IsNone(last'.arg) \/ IsFilter(last'.arg)))
          => last'.exc = "StopIteration"]_vars

\* C16: every message returned is decoded from a frame that begins at or
\* after the place all earlier calls had read to and ends where this call
\* has read to, and the count of bytes read never falls: frames are
\* returned in file order, none twice.
C16_FileOrder ==
    [][/\ (phase = "ready" /\ phase' = "ready") => bytes_read' >= bytes_read
       /\ (phase = "ready" /\ last'.op = "get_next_message" /\ last'.exc = "")
             => /\ bytes_read <= last'.frames[Len(last'.frames)].at
                /\ last'.frames[Len(last'.frames)].at < last'.frames[Len(last'.frames)].end
                /\ last'.frames[Len(last'.frames)].end = bytes_read'
                /\ last'.ret =
                      decode_message(version,
                                     file[last'.frames[Len(last'.frames)].at + 3],
                                     SubSeq(file, last'.frames[Len(last'.frames)].at + 4,
                                            bytes_read')).msg]_vars

C16_Witness ==
    /\ phase = "ready" /\ iter.allowed = None
    /\ Len(iter.at) >= 3
    /\ iter.at[1] < iter.at[2] /\ iter.at[2] < iter.at[3]
    /\ iter.out[1] # iter.out[2]

C18_BytesReadIsHeaderStart == [][FirstSeek => bytes_read' = FirstHeaderOffset]_vars

\* C18, amended: after the first successful _seek_header bytes_read is the
\* offset just past a header, 40 bytes after the offset at which its prefix
\* starts (1930 for a header that starts at 1890).
C18_BytesReadIsPastHeader ==
    [][FirstSeek
          => /\ bytes_read' >= 40
             /\ SubSeq(file, bytes_read' - 39, bytes_read' - 28) = tp_header]_vars

C18_Witness ==
    /\ calls = 1 /\ last.op = "_seek_header" /\ last.exc = ""
    /\ layout.pre # <<>>
    /\ bytes_read = FirstHeaderOffset + 40

\* C19: construction leaves bytes_read at 0 whatever the session pre-pass
\* read, and after the first successful _seek_header bytes_read is the start
\* of the matched segment header plus 40, the offset of its first frame.
C19_HeaderStartPlus40 ==
    [][/\ (last'.op = "__init__" /\ last'.exc = "") => bytes_read' = 0
       /\ FirstSeek
             => \E k \in 1..Len(layout.counts) :
                   /\ bytes_read' = HeaderAt(layout, k) + 40
                   /\ bytes_read' = FramesStart(layout, k)
                   /\ messages_left' = Declared(layout, k)]_vars

C19_Witness ==
    /\ calls = 1 /\ last.op = "_seek_header" /\ last.exc = ""
    /\ layout.pre = <<1, 7>>
    /\ bytes_read = 42 /\ messages_left = MaxCount

\* C20: no execution ends with the file open: not one that ended in a
\* failed construction, nor one that left the parser.
C20_FileClosedAtEnd == phase \in {"failed", "closed"} => ~file_open

\* the attributes of a class that __post_init__ is to derive from the
\* constructor parameters: for the eight kinds with prices, the price floats
PriceAttributes(cls) ==
    {Slots(cls)[k] : k \in 1..Len(Slots(cls))}
        \ ({ClassFields(cls)[k] : k \in 1..Len(ClassFields(cls))}
           \cup {"system_event_str", "trading_status_message"})

PriceKinds ==
    {"SecurityDirective", "BidPriceLevelUpdate", "AskPriceLevelUpdate", "QuoteUpdate",
     "TradeReport", "OfficialPrice", "TradeBreak", "AuctionInformation"}

\* attribute a of message m is set, to the quotient by 10 ** 4 of an integer
\* attribute of m
IsPriceOfInt(m, a) ==
    /\ a \in DOMAIN m.prices
    /\ m.prices[a].den = 10000
    /\ \E k \in 1..Len(m.fields) :
          /\ m.fields[k] \in DOMAIN PriceOfInt
          /\ PriceOfInt[m.fields[k]] = a
          /\ m.prices[a].num = m.vals[k]

\* C21: every price attribute of every decoded message of a kind with prices
\* is set, and is its integer companion divided by 10000.
C21_PricesDerived ==
    (last.op = "decode_message" /\ last.exc = "" /\ last.ret.cls \in PriceKinds)
        => /\ PriceAttributes(last.ret.cls) # {}
           /\ \A a \in PriceAttributes(last.ret.cls) : IsPriceOfInt(last.ret, a)

\* struct.pack(fmt, *values) for values given as their bytes: the values in
\* order, a zero byte for every pad code
RECURSIVE Pack(_, _)
Pack(fmt, values) ==
    IF fmt = <<>> THEN <<>>
    ELSE IF Head(fmt) = "x" THEN <<0>> \o Pack(Tail(fmt), values)
    ELSE IF values = <<>> THEN <<>>
    ELSE Head(values) \o Pack(Tail(fmt), Tail(values))

\* binary_msg is what packing some field values with the layout that
\* version v registers for tag t gives, the values being ones the kind
\* allows: text that is UTF-8, a known system event code or trading status
IsPackedFrame(v, t, binary_msg) ==
    /\ t \in DOMAIN message_types[v]
    /\ Len(binary_msg) = CalcSize(DECODE_FMT(v, t))
    /\ binary_msg = Pack(DECODE_FMT(v, t), UnpackFrom(DECODE_FMT(v, t), binary_msg))
    /\ \A k \in 1..Len(ValueCodes(DECODE_FMT(v, t))) :
          IsBytesCode(ValueCodes(DECODE_FMT(v, t))[k])
              => Utf8Valid(UnpackFrom(DECODE_FMT(v, t), binary_msg)[k])
    /\ MSG_CLS(v, t) = "SystemEvent" => binary_msg[1] \in system_event_types
    /\ MSG_CLS(v, t) = "TradingStatus" => <<binary_msg[1]>> \in trading_status_messages

\* message m of class cls holds the values raw, one per constructor
\* parameter, text trimmed, and its derived attributes are set
HoldsValues(m, cls, raw) ==
    /\ m.cls = cls
    /\ m.fields = ClassFields(cls)
    /\ Len(raw) = Len(m.fields)
    /\ \A k \in 1..Len(m.fields) :
          m.vals[k] = raw[k] \/ (m.fields[k] \in str_fields /\ m.vals[k] = Strip(raw[k]))
    /\ \A a \in PriceAttributes(cls) : IsPriceOfInt(m, a)

\* C22: a frame packed with the layout a version registers for a tag decodes
\* under that version to a message of the tag's kind that holds the packed
\* values, with its derived attributes set.
C22_RoundTrip ==
    (last.op = "decode_message"
     /\ IsPackedFrame(version, last.arg.msg_type, last.arg.binary_msg))
        => /\ last.exc = ""
           /\ HoldsValues(last.ret, MSG_CLS(version, last.arg.msg_type),
                          UnpackFrom(DECODE_FMT(version, last.arg.msg_type),
                                     last.arg.binary_msg))

\* the tags registered for some version and not for version v
TagsNotOf(v) ==
    CASE v = "1.0" -> {81}
      [] v = "1.6" -> {69, 56, 53}
      [] v = "1.5" -> {83, 68, 72, 79, 80, 88, 65, 69, 56, 53}

\* the payload length of a TradeReport (tag 0x54) under version v
TradeReportLength(v) == IF v = "1.5" THEN 41 ELSE 37

\* C23: a decoder rejects with ProtocolException the tags that only other
\* versions register, and decodes a TradeReport (tag 0x54) from a payload of
\* 37 bytes under 1.6 and of 41 bytes, four pad bytes last, under 1.5, and
\* from no payload of another length.
C23_VersionAwareRegistry ==
    last.op = "decode_message"
        => /\ last.arg.msg_type \in TagsNotOf(version) => last.exc = "ProtocolException"
           /\ (last.arg.msg_type = 84 /\ version \in {"1.5", "1.6"})
                 => /\ last.exc # "ProtocolException"
                    /\ last.exc = "" => /\ Len(last.arg.binary_msg) = TradeReportLength(version)
                                        /\ last.ret.cls = "TradeReport"
                                        /\ Len(last.ret.vals) = 6
                    /\ (/\ Len(last.arg.binary_msg) = TradeReportLength(version)
                        /\ Utf8Valid(SubSeq(last.arg.binary_msg, 10, 17)))
                          => last.exc = ""

C23_Witness ==
    /\ last.op = "decode_message" /\ last.exc = ""
    /\ version = "1.5" /\ last.arg.msg_type = 84
    /\ Len(last.arg.binary_msg) = 41 /\ last.arg.binary_msg[41] = 41
    /\ last.ret.cls = "TradeReport"
    /\ last.ret.vals[6] = SubSeq(last.arg.binary_msg, 30, 37)

\* the last frame the last call read
LastFrame == last.frames[Len(last.frames)]

\* C24: after a get_next_message call that returned, message is the message
\* returned, message_type the tag of the frame read last and message_binary
\* that frame's payload, and decoding the two again gives that message.
C24_AttributesDescribeReturned ==
    (phase = "ready" /\ last.op = "get_next_message" /\ last.exc = "")
        => /\ message = last.ret
           /\ message_type = file[LastFrame.at + 3]
           /\ message_binary = SubSeq(file, LastFrame.at + 4, LastFrame.end)
           /\ LastFrame.end = bytes_read
           /\ decode_message(version, message_type, message_binary).exc = ""
           /\ decode_message(version, message_type, message_binary).msg = last.ret

C24_Witness ==
    /\ phase = "ready" /\ last.op = "get_next_message" /\ last.exc = ""
    /\ last.arg = Allowed("list", {"TradeReport"})
    /\ Len(last.frames) >= 2
    /\ message = last.ret /\ message.cls = "TradeReport" /\ message_type = 84
    /\ Len(message_binary) = 37

\* the naive scan: one match index i into the 12-byte prefix; the byte at
\* offset k advances it when it equals the prefix byte at i and resets it to
\* 0 otherwise; the scan rests once i is 12 or the file is at its end
NaiveStep(st) ==
    IF st.i = 12 \/ st.k >= Len(file) THEN st
    ELSE [i |-> IF file[st.k + 1] = tp_header[st.i + 1] THEN st.i + 1 ELSE 0,
          k |-> st.k + 1]

RECURSIVE NaiveRun(_, _)
NaiveRun(st, n) ==
    IF n = 0 \/ st.i = 12 \/ st.k >= Len(file) THEN st
    ELSE IF n = 1 THEN NaiveStep(st)
    ELSE NaiveRun(NaiveRun(st, n \div 2), n - (n \div 2))

\* where the naive scan begun at offset p rests, and with which index
NaiveScan(p) == NaiveRun([i |-> 0, k |-> p], Len(file))

\* a _seek_header call begun at offset p went as the naive scan n does: a
\* match when the index reached 12, the trailer read from there; no match
\* and the file read to its end otherwise
WentAs(n, exc, q) ==
    /\ n.i = 12 => /\ q = Min(n.k + 28, Len(file))
                   /\ exc = "" <=> n.k + 28 <= Len(file)
    /\ n.i # 12 => (exc = "StopIteration" /\ q = Len(file))

\* C25: _seek_header scans naively: it matches exactly where the index of
\* the naive scan, which is reset to 0 on a mismatch without the byte being
\* tested against the first prefix byte, reaches 12.
C25_NaiveScan ==
    [][(phase = "ready" /\ last'.op = "_seek_header")
          => WentAs(NaiveScan(pos), last'.exc, pos')]_vars

C25_Witness ==
    /\ last.op = "_seek_header" /\ last.exc = "StopIteration"
    /\ calls = 2 /\ header # NoHeader /\ messages_left = MaxCount
    /\ layout.pre = <<>> /\ layout.fill = <<1>> /\ layout.cut = 0
    /\ Len(layout.counts) = 2
    /\ file[HeaderAt(layout, 2)] = 1
    /\ SubSeq(file, HeaderAt(layout, 2) + 1, HeaderAt(layout, 2) + 12) = tp_header
    /\ pos = Len(file)

\* the segment header as _seek_header populates it from the 28 bytes that
\* end at offset q
HeaderEndingAt(q) ==
    [cur_msg_payload_len |-> UnpackInt16(SubSeq(file, q - 27, q - 26)),
     cur_stream_offset |-> SubSeq(file, q - 23, q - 16),
     first_sequence_number |-> SubSeq(file, q - 15, q - 8),
     cur_send_time |-> SubSeq(file, q - 7, q)]

\* C26: a _seek_header that returns has read the prefix and the 28 bytes
\* after it, and messages_left is the second int16 of those; one that raises,
\* as at a trailer cut short by the end of the file, leaves the segment
\* header and messages_left as they were.
C26_TrailerPopulatesHeader ==
    [][(phase = "ready" /\ last'.op = "_seek_header")
          => /\ last'.exc = ""
                => /\ pos' >= pos + 40
                   /\ SubSeq(file, pos' - 39, pos' - 28) = tp_header
                   /\ pos' = NaiveScan(pos).k + 28
                   /\ bytes_read' - bytes_read = pos' - pos
                   /\ messages_left' = UnpackInt16(SubSeq(file, pos' - 25, pos' - 24))
                   /\ header' = HeaderEndingAt(pos')
             /\ last'.exc # ""
                => (header' = header /\ messages_left' = messages_left)]_vars

C26_Witness ==
    /\ last.op = "_seek_header" /\ last.exc = ""
    /\ calls = 1 /\ layout.pre = <<0, 7>>
    /\ pos = 42 /\ messages_left = MaxCount
    /\ UnpackInt16(SubSeq(file, 17, 18)) = MaxCount
    /\ header.cur_msg_payload_len > MaxCount

\* C27: every frame _read_next_message read, of whatever wire length L, took
\* 2 + L bytes of the file and one unit of messages_left, and its payload as
\* stored in message_binary has L - 1 bytes.
C27_FrameConsumption ==
    (phase = "ready" /\ last.op = "get_next_message" /\ last.frames # <<>>)
        => /\ FramesCounted(last.frames)
           /\ Len(message_binary) = LastFrame.len - 1

\* frame f of the log begins among the bytes of segment k
BeginsIn(f, k) == FramesStart(layout, k) <= f.at /\ f.at < FramesEnd(layout, k)

C29_EmptyFilterEndsStream ==
    (phase = "ready" /\ last.op = "get_next_message"
     /\ last.arg.container \in {"list", "tuple"} /\ last.arg.items = {})
        => /\ last.exc = "StopIteration"
           /\ last.ret = NoMessage
           /\ pos = Len(file)

\* C30: the size of a decoded BidPriceLevelUpdate or AskPriceLevelUpdate is
\* an unsigned 32-bit integer, never below zero, as are the sizes of a
\* TradeReport and of a QuoteUpdate.
C30_SizeIsUnsigned ==
    (/\ last.op = "decode_message" /\ last.exc = ""
     /\ last.ret.cls \in {"BidPriceLevelUpdate", "AskPriceLevelUpdate", "TradeReport",
                          "QuoteUpdate"})
        => /\ last.ret.negative \cap {"size", "bid_size", "ask_size"} = {}
           /\ \A k \in 1..Len(last.ret.fields) :
                 last.ret.fields[k] \in {"size", "bid_size", "ask_size"}
                     => Len(last.ret.vals[k]) = 4

\* C31: messages_left of a constructed parser is never below 0, and every
\* frame is read while the active header has messages remaining.
C31_MessagesLeftNotNegative ==
    phase = "ready"
        => /\ messages_left >= 0
           /\ last.op = "get_next_message"
                 => \A n \in DOMAIN last.frames : last.frames[n].left > 0

\* C32: a call ends with StopIteration, which only read_chunk raises, only
\* with the file read to its end.
C32_StopOnlyWhenExhausted ==
    (phase = "ready" /\ last.exc = "StopIteration") => pos = Len(file)

\* C33: the layout a version registers for a tag yields as many values as
\* the registered class has constructor parameters, so that a payload of the
\* layout's width is unpacked and passed to the constructor without error.
C33_LayoutArityMatchesClass ==
    (/\ last.op = "decode_message"
     /\ last.arg.msg_type \in DOMAIN message_types[version]
     /\ Len(last.arg.binary_msg) = CalcSize(DECODE_FMT(version, last.arg.msg_type)))
        => /\ Len(ValueCodes(DECODE_FMT(version, last.arg.msg_type)))
                 = Len(ClassFields(MSG_CLS(version, last.arg.msg_type)))
           /\ last.exc \notin {"struct.error", "TypeError", "ProtocolException"}

\* the tags a filter lets through, by the parser's kind-to-tag table
PassesFilter(type, allowed) == \E a \in allowed.items : messages_types[a] = type

\* the payload of a logged frame
PayloadOf(f) == IF f.at + 4 <= f.end THEN SubSeq(file, f.at + 4, f.end) ELSE <<>>

\* C34: the parser's kind-to-tag table and the decoder's registry agree: for
\* every version and every tag registered for it with class K the parser's
\* table maps K to that tag; hence in a filtered call every frame passed over
\* has a tag outside the filter, the frame returned has a tag inside it, and a
\* frame that decodes has its tag inside the filter exactly when the message
\* it decodes to is of an allowed kind.
C34_FilterTableAgreesWithRegistry ==
    /\ \A v \in Versions : \A t \in DOMAIN message_types[v] :
            messages_types[MSG_CLS(v, t)] = t
    /\ (/\ phase = "ready" /\ last.op = "get_next_message"
        /\ IsFilter(last.arg) /\ last.arg.items # {})
          => /\ \A n \in DOMAIN last.frames :
                    LET f == last.frames[n]
                        d == decode_message(version, f.type, PayloadOf(f))
                    IN  /\ n < Len(last.frames) => ~PassesFilter(f.type, last.arg)
                        /\ d.exc = ""
                              => (PassesFilter(f.type, last.arg)
                                     <=> d.msg.cls \in last.arg.items)
             /\ last.exc = ""
                   => /\ PassesFilter(LastFrame.type, last.arg)
                      /\ last.ret.cls \in last.arg.items

C34_Witness ==
    /\ phase = "ready" /\ last.op = "get_next_message" /\ last.exc = ""
    /\ last.arg = Allowed("tuple", {"TradeReport", "QuoteUpdate"})
    /\ Len(last.frames) >= 2
    /\ last.frames[1].type = 83
    /\ decode_message(version, 83, PayloadOf(last.frames[1])).msg.cls = "SystemEvent"
    /\ last.ret.cls \in {"TradeReport", "QuoteUpdate"}
    /\ messages_types[last.ret.cls] = LastFrame.type

\* the earliest offset at or after p at which the full 12-byte prefix begins
EarliestHeaderFrom(p) ==
    CHOOSE k \in p..(Len(file) - Len(tp_header)) :
        /\ SubSeq(file, k + 1, k + Len(tp_header)) = tp_header
        /\ ~\E j \in p..(k - 1) : SubSeq(file, j + 1, j + Len(tp_header)) = tp_header

\* C35: _seek_header locks onto the earliest occurrence of the full 12-byte
\* prefix at or after the current position: when the prefix begins at offset
\* k and at no smaller offset from there on, the scan stops right after
\* offset k + 12 and the 28 trailer bytes are read from there, whatever bytes
\* precede k.
C35_LocksOntoEarliestOccurrence ==
    [][(/\ phase = "ready" /\ last'.op = "_seek_header"
        /\ Occurs(tp_header, file, pos))
          => LET k == EarliestHeaderFrom(pos)
             IN  /\ pos' = Min(k + 12 + 28, Len(file))
                 /\ last'.exc = "" <=> k + 12 + 28 <= Len(file)]_vars

\* the offset at which the 8 fixed bytes of the header prefix first begin
FirstFixedPrefixOffset ==
    CHOOSE k \in 0..(Len(file) - 8) :
        /\ SubSeq(file, k + 1, k + 8) = SubSeq(tp_header, 1, 8)
        /\ ~\E j \in 0..(k - 1) : SubSeq(file, j + 1, j + 8) = SubSeq(tp_header, 1, 8)

\* C36: after every successful construction the pinned header prefix is
\* exactly 12 bytes long: the 8 fixed bytes followed by the 4 bytes that
\* follow the first occurrence of those 8 bytes in the file; it is never
\* shorter, also when the file ends less than 4 bytes after that occurrence.
C36_HeaderPrefixIsTwelveBytes ==
    phase = "ready"
        => /\ Len(tp_header) = 12
           /\ SubSeq(tp_header, 1, 8)
                 \in {version_byte \o reserved \o id \o channel_id :
                         id \in {protcol_ids[v] : v \in DOMAIN protcol_ids}
                                  \cup {deep_protocol_id}}
           /\ FirstFixedPrefixOffset + 12 <= Len(file)
           /\ SubSeq(tp_header, 9, 12)
                 = SubSeq(file, FirstFixedPrefixOffset + 9, FirstFixedPrefixOffset + 12)

\* byte offset b of the file lies in a frame of some segment of the layout
InCountedFrame(b) ==
    \E k \in 1..Len(layout.counts) :
        FramesStart(layout, k) <= b /\ b < FramesEnd(layout, k)

\* byte offset b was read as part of one of the frames logged
InLoggedFrame(frames, b) == \E n \in DOMAIN frames : frames[n].at <= b /\ b < frames[n].end

\* the header scanner was not run while a segment was active: a call begun with
\* messages_left > 0 reads its first frame where it stands, and a frame read
\* with frames of its segment left over is followed at once by the next
ScannerNotRunWhileActive(left, p, frames) ==
    /\ (left > 0 /\ frames # <<>>) => frames[1].at = p
    /\ \A n \in 1..(Len(frames) - 1) :
          frames[n].left_after > 0 => frames[n + 1].at = frames[n].end

\* C37: while a segment is active (messages_left > 0) the header scanner is
\* never run, so for well-formed segments every byte of a counted frame that a
\* get_next_message call consumes is consumed as part of a frame read, never
\* by the scan that compares bytes with the header prefix.
C37_FrameBytesNeverScanned ==
    [][(phase = "ready" /\ SoundFile /\ last'.op = "get_next_message")
          => /\ ScannerNotRunWhileActive(messages_left, pos, last'.frames)
             /\ \A b \in pos..(pos' - 1) :
                   InCountedFrame(b) => InLoggedFrame(last'.frames, b)]_vars

\* the first half of C37 alone, on every file
C37_ScannerOnlyWhenIdle ==
    [][(phase = "ready" /\ last'.op = "get_next_message")
          => ScannerNotRunWhileActive(messages_left, pos, last'.frames)]_vars

\* C37 on the files in which no header is preceded by the byte 0x01
C37_FrameBytesNeverScannedUnlessMissed ==
    [][(/\ phase = "ready" /\ SoundFile /\ last'.op = "get_next_message"
        /\ \A k \in 1..Len(layout.counts) :
              HeaderAt(layout, k) = 0 \/ file[HeaderAt(layout, k)] # 1)
          => \A b \in pos..(pos' - 1) :
                InCountedFrame(b) => InLoggedFrame(last'.frames, b)]_vars

\* a call of get_next_message begun at offset p that ended at offset q with
\* exception exc (or none) and the frames logged made progress: the file was
\* only read forward, each frame read took bytes of the file and began where
\* the one before it ended or later, and a message was returned only after
\* its length, its tag and at least one more byte were read
MadeProgress(p, q, exc, frames) ==
    /\ p <= q /\ q <= Len(file)
    /\ \A n \in DOMAIN frames :
          /\ p <= frames[n].at /\ frames[n].at + 3 <= frames[n].end
          /\ frames[n].end <= q
          /\ n > 1 => frames[n - 1].end <= frames[n].at
    /\ exc = "" => (frames # <<>> /\ p + 3 <= q)

\* the header scan of _seek_header begun where the parser stands leaves its
\* loop by a match or by the end of the file, each iteration before that
\* having consumed one byte: the scan ends within Len(file) + 1 iterations
ScanLeavesLoop ==
    LET r == SeekScan(Self)
    IN  /\ r.found \/ r.exc # ""
        /\ r.s.pos <= Len(file)
        /\ r.found => r.s.pos >= pos + Len(tp_header)

\* C38: on every finite input file every call of get_next_message, with or
\* without a filter, terminates, and repeated calls reach the end of the
\* stream or an error after finitely many calls: the header scan leaves its
\* loop within Len(file) + 1 iterations, every frame a call reads and every
\* message it returns consumes bytes of the file, and so the messages
\* returned by repeated calls number at most a third of the bytes consumed.
C38_CallsTerminate ==
    /\ [](phase = "ready" => (ScanLeavesLoop /\ 3 * Len(iter.out) <= pos))
    /\ [][(phase = "ready" /\ last'.op = "get_next_message")
             => MadeProgress(pos, pos', last'.exc, last'.frames)]_vars

C38_Witness ==
    /\ phase = "ready" /\ last.op = "get_next_message"
    /\ last.exc = "StopIteration"
    /\ IsFilter(last.arg) /\ last.arg.items # {}
    /\ Len(iter.out) >= 2
    /\ Len(last.frames) >= 1
    /\ pos = Len(file)

(***************************************************************************)
(* The retry decorator of the REST client, IEX_hist_parser/IEX_API.py.     *)
(* http_retry wraps IEX_API._request once, when the class is built; its    *)
(* counter num_tries lives in the closure, one for all calls and all       *)
(* instances.  A call of the wrapped method is followed attempt by         *)
(* attempt; what the server does at each attempt is the input.             *)
(***************************************************************************)
\* http_retry: `max_tries = 5`
max_tries == 5

\* http_retry: `base_sleep = 2`
base_sleep == 2

\* how many calls of the wrapped method a client makes
MaxRequests == 3

\* base ** n
RECURSIVE Pow(_, _)
Pow(base, n) == IF n = 0 THEN 1 ELSE base * Pow(base, n - 1)

\* the exceptions of the `except` clause of meth_wrapper
Retried == {"HTTPError", "ConnectionError"}

\* how one invocation of IEX_API._request ends: with the decoded response,
\* with the HTTPError of raise_for_status (re-raised), with the
\* ConnectionError of requests.request, or with another exception
\* (a read timeout, a response that is not JSON)
Outcomes == {"json"} \cup Retried \cup {"ReadTimeout", "JSONDecodeError"}

\* one iteration of `while num_tries < max_tries` in which method(...) ended
\* as o, with the counter at n: the counter afterwards, whether the wrapper is
\* left, and by which return value or exception, and the seconds slept
Attempted(n, o) ==
    IF o = "json"
    THEN [num_tries |-> 0, left |-> TRUE, ret |-> "val", exc |-> "", slept |-> 0]
    ELSE IF o \in Retried
    THEN IF n + 1 <= max_tries
         THEN [num_tries |-> n + 1, left |-> FALSE, ret |-> "", exc |-> "",
               slept |-> Pow(base_sleep, n + 1)]
         ELSE [num_tries |-> n + 1, left |-> TRUE, ret |-> "", exc |-> o, slept |-> 0]
    ELSE [num_tries |-> n, left |-> TRUE, ret |-> "", exc |-> o, slept |-> 0]

InitClient ==
    /\ layout = Layout("1.6", <<>>, <<>>, <<>>, <<>>, 0, 0, 0)
    /\ args = Tops16
    /\ file = <<>>
    /\ phase = "client"
    /\ file_open = FALSE
    /\ pos = 0
    /\ version = Unset
    /\ tp_header = <<>>
    /\ messages_left = Unset
    /\ bytes_read = Unset
    /\ header = NoHeader
    /\ message_type = Unset
    /\ message_binary = Unset
    /\ message = Unset
    /\ calls = 0
    /\ iter = NoIteration
    /\ last = NoCall
    /\ num_tries = 0
    /\ http = NoRequest

\* api._request(method, endpoint, params): meth_wrapper is entered
Request ==
    /\ phase = "client"
    /\ http.pc = "idle" /\ http.made < MaxRequests
    /\ http' = [pc |-> "meth_wrapper", invoked |-> 0, slept |-> 0, made |-> http.made,
                ret |-> "", exc |-> ""]
    /\ UNCHANGED <<num_tries, layout, file, args, phase, file_open, pos, version,
                   tp_header, messages_left, bytes_read, header, message_type,
                   message_binary, message, calls, iter, last>>

\* the loop test holds and method(self, *args, **kwargs) ends as o
Attempt(o) ==
    /\ http.pc = "meth_wrapper"
    /\ num_tries < max_tries
    /\ LET r == Attempted(num_tries, o)
       IN  /\ num_tries' = r.num_tries
           /\ http' = [pc |-> IF r.left THEN "idle" ELSE "meth_wrapper",
                       invoked |-> http.invoked + 1,
                       slept |-> r.slept,
                       made |-> IF r.left THEN http.made + 1 ELSE http.made,
                       ret |-> r.ret,
                       exc |-> r.exc]
    /\ UNCHANGED <<layout, file, args, phase, file_open, pos, version, tp_header,
                   messages_left, bytes_read, header, message_type, message_binary,
                   message, calls, iter, last>>

\* the loop test fails: the function body ends, meth_wrapper returns None
LeaveLoop ==
    /\ http.pc = "meth_wrapper"
    /\ ~(num_tries < max_tries)
    /\ http' = [http EXCEPT !.pc = "idle", !.made = @ + 1, !.ret = "None", !.exc = "",
                            !.slept = 0]
    /\ UNCHANGED <<num_tries, layout, file, args, phase, file_open, pos, version,
                   tp_header, messages_left, bytes_read, header, message_type,
                   message_binary, message, calls, iter, last>>

NextClient ==
    \/ Request
    \/ \E o \in Outcomes : Attempt(o)
    \/ LeaveLoop

SpecClient == InitClient /\ [][NextClient]_vars

\* a call of the wrapped method has ended
RequestEnded == http.pc = "idle" /\ http.made > 0

\* C39: when the wrapped method raises HTTPError or ConnectionError on every
\* attempt, the wrapper invokes it at most max_tries times and then
\* propagates the exception: a call in which no attempt succeeded, and none
\* ended with an exception that is not retried, ends with the exception and
\* never with a normal return.
C39_ExhaustedRetriesPropagate ==
    (RequestEnded /\ http.ret # "val" /\ http.exc \notin Outcomes \ Retried)
        => /\ http.invoked <= max_tries
           /\ http.exc \in Retried
           /\ http.ret = ""

\* C40: every call of a wrapped method starts with a full retry budget:
\* num_tries is 0 whenever no wrapped call is in progress, whatever the
\* outcome of earlier calls, and every call invokes the underlying method.
C40_FullBudgetBetweenCalls ==
    /\ http.pc = "idle" => num_tries = 0
    /\ RequestEnded => http.invoked >= 1

=============================================================================
